---- MODULE Spec2Model ----
(***************************************************************************)
(* The Poseidon hash circuit of src/src/circuit.rs: the arithmetic gadgets *)
(* (add, multi_add, quintic_s_box), the PoseidonCircuit round scheduler    *)
(* and the poseidon_hash entry point, over a constraint system that keeps  *)
(* the allocated variables, their witness values and the rank-1            *)
(* constraints A * B = C registered so far.                                *)
(*                                                                         *)
(* The scalar field Fr of Bls12 is modelled by the integers modulo         *)
(* FieldSize.  An Option<Fr> is a sequence: <<>> is None, <<v>> is Some(v). *)
(***************************************************************************)
EXTENDS Integers, Sequences, FiniteSets, TLC

\* ------------------------------------------------------------------ bounds

\* The modulus of the model's scalar field.
FieldSize == 5

\* ------------------------------------------------- parameters of the crate

ARITY == 2

WIDTH == 3

FULL_ROUNDS == 8

PARTIAL_ROUNDS == 55

\* ----------------------------------------------------------- field, Option

None == <<>>

Some(v) == <<v>>

IsSome(o) == o # <<>>

Unwrap(o) == o[1]

Fr == 0 .. (FieldSize - 1)

OptionFr == {None} \cup {Some(v) : v \in Fr}

FAdd(a, b) == (a + b) % FieldSize

FMul(a, b) == (a * b) % FieldSize

\* The domain-separation tag of the declared arity: 2^arity - 1.
ARITY_TAG == ((2 ^ ARITY) - 1) % FieldSize

\* The precomputed round constants: width constants per round.
ROUND_CONSTANTS ==
    [i \in 1 .. (WIDTH * (FULL_ROUNDS + PARTIAL_ROUNDS)) |-> ((i * i) + i + 1) % FieldSize]

\* The precomputed width x width diffusion matrix.
MDS_MATRIX ==
    [j \in 1 .. WIDTH |-> [k \in 1 .. WIDTH |-> (((j - 1) * WIDTH) + k) % FieldSize]]

\* ------------------------------------------------------- constraint system

\* The variable CS::one() of a linear combination.
ONE == 0

\* A constraint system with nothing allocated; computes says whether alloc
\* runs the value closure (a proving or test system) or not (shape only).
NewCS(computes) == [computes |-> computes, aux |-> <<>>, constraints |-> <<>>]

NoNum == [value |-> None, variable |-> ONE]

Ok(n) == [tag |-> "Ok", num |-> n]

AssignmentMissing == [tag |-> "AssignmentMissing", num |-> NoNum]

Panicked == [tag |-> "panic", num |-> NoNum]

Pending == [tag |-> "pending", num |-> NoNum]

\* AllocatedNum::alloc(cs, || value): value is None when the closure returns
\* Err(AssignmentMissing).  A shape-only system never runs the closure.
Alloc(c, value) ==
    IF c.computes /\ ~IsSome(value)
    THEN [cs |-> c, res |-> AssignmentMissing]
    ELSE LET v == IF c.computes THEN value ELSE None
         IN  [cs  |-> [c EXCEPT !.aux = Append(@, v)],
              res |-> Ok([value |-> v, variable |-> Len(c.aux) + 1])]

\* cs.enforce(a, b, c): registers a * b = c, each side a sequence of
\* variables with coefficient one.
Enforce(c, a, b, cc) ==
    [c EXCEPT !.constraints = Append(@, [a |-> a, b |-> b, c |-> cc])]

\* AllocatedNum::mul
Mul(c, x, y) ==
    LET al == Alloc(c, IF IsSome(x.value) /\ IsSome(y.value)
                       THEN Some(FMul(Unwrap(x.value), Unwrap(y.value)))
                       ELSE None)
    IN  IF al.res.tag # "Ok"
        THEN al
        ELSE [cs  |-> Enforce(al.cs, <<x.variable>>, <<y.variable>>,
                              <<al.res.num.variable>>),
              res |-> al.res]

\* AllocatedNum::square
Square(c, x) ==
    LET al == Alloc(c, IF IsSome(x.value)
                       THEN Some(FMul(Unwrap(x.value), Unwrap(x.value)))
                       ELSE None)
    IN  IF al.res.tag # "Ok"
        THEN al
        ELSE [cs  |-> Enforce(al.cs, <<x.variable>>, <<x.variable>>,
                              <<al.res.num.variable>>),
              res |-> al.res]

\* The witness value of a variable; CS::one() is 1.
VarValue(c, v) == IF v = ONE THEN Some(1) ELSE c.aux[v]

RECURSIVE LcValue(_, _, _)
\* The value of a linear combination from its n-th term on.
LcValue(c, lc, n) ==
    IF n > Len(lc) THEN 0
    ELSE FAdd(Unwrap(VarValue(c, lc[n])), LcValue(c, lc, n + 1))

LcAssigned(c, lc) == \A n \in 1 .. Len(lc) : IsSome(VarValue(c, lc[n]))

\* TestConstraintSystem::is_satisfied, for one constraint.
Holds(c, con) ==
    /\ LcAssigned(c, con.a) /\ LcAssigned(c, con.b) /\ LcAssigned(c, con.c)
    /\ FMul(LcValue(c, con.a, 1), LcValue(c, con.b, 1)) = LcValue(c, con.c, 1)

\* ------------------------------------------------------------------ gadgets

\* sum that enforces the equation in both directions.
sum_both_ways(c, a, b, s) ==
    Enforce(Enforce(c, <<a.variable, b.variable>>, <<ONE>>, <<s.variable>>),
            <<s.variable>>, <<ONE>>, <<a.variable, b.variable>>)

\* (a + b) * 1 = sum
sum(c, a, b, s) ==
    Enforce(c, <<a.variable, b.variable>>, <<ONE>>, <<s.variable>>)

\* multi_sum that leaves the last num out of the sum.
multi_sum_short(c, nums, s) ==
    Enforce(c, [i \in 1 .. (Len(nums) - 1) |-> nums[i].variable], <<ONE>>,
            <<s.variable>>)

\* (num[0] + num[1] + ... + num[n]) * 1 = sum
multi_sum(c, nums, s) ==
    Enforce(c, [i \in 1 .. Len(nums) |-> nums[i].variable], <<ONE>>, <<s.variable>>)

\* add that returns b itself when a is known to be zero.
add_skip_zero(c, a, b) ==
    IF a.value = Some(0) THEN [cs |-> c, res |-> Ok(b)]
    ELSE LET al == Alloc(c, Some(FAdd(Unwrap(a.value), Unwrap(b.value))))
         IN  [cs |-> sum(al.cs, a, b, al.res.num), res |-> al.res]

add(c, a, b) ==
    LET al == Alloc(c, IF IsSome(a.value) /\ IsSome(b.value)
                       THEN Some(FAdd(Unwrap(a.value), Unwrap(b.value)))
                       ELSE None)
    IN  IF al.res.tag # "Ok"
        THEN al
        ELSE [cs |-> sum(al.cs, a, b, al.res.num), res |-> al.res]

RECURSIVE FoldAdd(_, _)
\* nums.iter().fold(zero, |acc, num| acc + num.value) from the n-th on.
FoldAdd(nums, n) ==
    IF n > Len(nums) THEN 0
    ELSE FAdd(Unwrap(nums[n].value), FoldAdd(nums, n + 1))

\* The value closure unwraps every num's value: it panics on a None.
multi_add(c, nums) ==
    IF c.computes /\ \E i \in 1 .. Len(nums) : ~IsSome(nums[i].value)
    THEN [cs |-> c, res |-> Panicked]
    ELSE LET al == Alloc(c, IF c.computes THEN Some(FoldAdd(nums, 1)) ELSE None)
         IN  IF al.res.tag # "Ok"
             THEN al
             ELSE [cs |-> multi_sum(al.cs, nums, al.res.num), res |-> al.res]

\* The S-box by the naive expansion: four multiplications by l.
quintic_s_box_naive(c, l) ==
    LET l2 == Mul(c, l, l)
    IN  IF l2.res.tag # "Ok" THEN l2
        ELSE LET l3 == Mul(l2.cs, l2.res.num, l)
             IN  IF l3.res.tag # "Ok" THEN l3
                 ELSE LET l4 == Mul(l3.cs, l3.res.num, l)
                      IN  IF l4.res.tag # "Ok" THEN l4
                          ELSE Mul(l4.cs, l4.res.num, l)

\* The S-box whose last multiplication takes l2 instead of l.
quintic_s_box_by_l2(c, l) ==
    LET l2 == Square(c, l)
    IN  IF l2.res.tag # "Ok" THEN l2
        ELSE LET l4 == Square(l2.cs, l2.res.num)
             IN  IF l4.res.tag # "Ok" THEN l4
                 ELSE Mul(l4.cs, l4.res.num, l2.res.num)

quintic_s_box(c, l) ==
    LET l2 == Square(c, l)
    IN  IF l2.res.tag # "Ok" THEN l2
        ELSE LET l4 == Square(l2.cs, l2.res.num)
             IN  IF l4.res.tag # "Ok" THEN l4
                 ELSE Mul(l4.cs, l4.res.num, l)

\* ---------------------------------------------------- parameter allocation

\* Every constant allocated and bound to itself by a constraint.
AllocSeq_enforced(c, vals) ==
    LET given(n) == Alloc(c, Some(vals[n])).res.num.value
    IN  [cs   |-> [c EXCEPT !.aux = @ \o [n \in 1 .. Len(vals) |-> given(n)],
                            !.constraints = @ \o
                                [n \in 1 .. Len(vals) |->
                                    [a |-> <<Len(c.aux) + n>>, b |-> <<ONE>>,
                                     c |-> <<Len(c.aux) + n>>]]],
         nums |-> [n \in 1 .. Len(vals) |->
                      [value |-> given(n), variable |-> Len(c.aux) + n]]]

\* The loop of allocated_round_constants (and of a row of allocated_matrix):
\* every value is allocated in order as Ok(*val), which cannot fail, so the
\* n-th value gets the n-th next variable.
AllocSeq(c, vals) ==
    LET given(n) == Alloc(c, Some(vals[n])).res.num.value
    IN  [cs   |-> [c EXCEPT !.aux = @ \o [n \in 1 .. Len(vals) |-> given(n)]],
         nums |-> [n \in 1 .. Len(vals) |->
                      [value |-> given(n), variable |-> Len(c.aux) + n]]]

allocated_round_constants(c, fr_constants) == AllocSeq(c, fr_constants)

RECURSIVE AllocRows(_, _, _, _)
AllocRows(c, fr_matrix, i, mat) ==
    IF i > Len(fr_matrix) THEN [cs |-> c, nums |-> mat]
    ELSE LET row == AllocSeq(c, fr_matrix[i])
         IN  AllocRows(row.cs, fr_matrix, i + 1, Append(mat, row.nums))

allocated_matrix(c, fr_matrix) == AllocRows(c, fr_matrix, 1, <<>>)

\* The vector rotated to the left.
rotate_left(v) == IF v = <<>> THEN v ELSE Append(Tail(v), Head(v))

\* The tag left where push put it, at the back.
rotate_none(v) == v

\* Vec::rotate_right(1)
rotate_right(v) ==
    IF Len(v) = 0 THEN v ELSE <<v[Len(v)]>> \o SubSeq(v, 1, Len(v) - 1)

\* --------------------------------------------------------------- the state

VARIABLES
    cs,               \* the constraint system the caller hands to poseidon_hash
    preimage,         \* the caller's input variables
    p,                \* the PoseidonCircuit
    pc,               \* where the run stands
    phase,            \* which loop of hash is running
    rnd,              \* that loop's i
    idx,              \* the i of add_round_constants and of the S-box loop
    constants_offset, \* the local cursor of add_round_constants
    j,                \* product_mds: the row
    k,                \* product_mds: the column
    result,           \* product_mds: the rows computed so far
    to_add,           \* product_mds: the products of the row
    ret,              \* what poseidon_hash (or the gadget called) returned
    trace,            \* history: the kind of every round called
    finished,         \* history: the number of rounds that returned
    reads,            \* history: the round-constant indices read
    last,             \* history: the gadget called on its own, and its arguments
    run,              \* which construction over this input is running
    prev              \* the outcome of the first construction

vars ==
    <<cs, preimage, p, pc, phase, rnd, idx, constants_offset, j, k, result,
      to_add, ret, trace, finished, reads, last, run, prev>>

\* new that keeps the cursor of the circuit built before.
new_stale_cursor(elements, matrix, round_constants) ==
    [constants_offset |-> p.constants_offset,
     round_constants  |-> round_constants,
     width            |-> WIDTH,
     elements         |-> elements,
     pos              |-> WIDTH,
     full_rounds      |-> FULL_ROUNDS,
     partial_rounds   |-> PARTIAL_ROUNDS,
     mds_matrix       |-> matrix]

\* new that starts the cursor where it starts pos.
new_cursor_at_width(elements, matrix, round_constants) ==
    [constants_offset |-> WIDTH,
     round_constants  |-> round_constants,
     width            |-> WIDTH,
     elements         |-> elements,
     pos              |-> WIDTH,
     full_rounds      |-> FULL_ROUNDS,
     partial_rounds   |-> PARTIAL_ROUNDS,
     mds_matrix       |-> matrix]

\* PoseidonCircuit::new
new(elements, matrix, round_constants) ==
    [constants_offset |-> 0,
     round_constants  |-> round_constants,
     width            |-> WIDTH,
     elements         |-> elements,
     pos              |-> WIDTH,
     full_rounds      |-> FULL_ROUNDS,
     partial_rounds   |-> PARTIAL_ROUNDS,
     mds_matrix       |-> matrix]

NoCircuit ==
    [constants_offset |-> 0, round_constants |-> <<>>, width |-> WIDTH,
     elements |-> <<>>, pos |-> WIDTH, full_rounds |-> FULL_ROUNDS,
     partial_rounds |-> PARTIAL_ROUNDS, mds_matrix |-> <<>>]

NoCall == [gadget |-> "none", args |-> <<>>, before |-> NewCS(FALSE)]

NoPrev == [ret |-> Pending, constraints |-> 0]

\* The caller's constraint system once it has allocated the input: variable
\* i carries vals[i] (test_poseidon_hash's data).
InputCS(computes, vals) == [NewCS(computes) EXCEPT !.aux = vals]

InputNums(vals) == [i \in 1 .. Len(vals) |-> [value |-> vals[i], variable |-> i]]

InputValues == [i \in 1 .. Len(preimage) |-> preimage[i].value]

\* ---------------------------------------------------- hash: the three loops

\* Every loop of full rounds running full_rounds times.
PhaseLimit_unhalved(c, ph) ==
    IF ph = "partial" THEN c.partial_rounds ELSE c.full_rounds

\* The bound of the loop of a phase.
PhaseLimit(c, ph) ==
    IF ph = "partial" THEN c.partial_rounds ELSE c.full_rounds \div 2

NextPhase(ph) ==
    IF ph = "initial" THEN "partial" ELSE IF ph = "partial" THEN "final" ELSE "return"

RECURSIVE EnterPhase(_, _)
\* The first loop from ph on that has an iteration to run.
EnterPhase(c, ph) ==
    IF ph = "return" \/ PhaseLimit(c, ph) > 0 THEN ph
    ELSE EnterPhase(c, NextPhase(ph))

RoundKind(ph) == IF ph = "partial" THEN "partial" ELSE "full"

\* Every round starting over from the first round constant.
CallRound_cursor_reset(c, ph, i) ==
    /\ phase' = ph
    /\ rnd' = i
    /\ idx' = 0
    /\ constants_offset' = 0
    /\ pc' = IF ph = "return" THEN "return" ELSE "add_round_constants"
    /\ trace' = IF ph = "return" THEN trace ELSE Append(trace, RoundKind(ph))

\* hash calls full_round or partial_round for iteration i of loop ph, or
\* falls through to its last line.
CallRound(c, ph, i) ==
    /\ phase' = ph
    /\ rnd' = i
    /\ idx' = 0
    /\ constants_offset' = c.constants_offset
    /\ pc' = IF ph = "return" THEN "return" ELSE "add_round_constants"
    /\ trace' = IF ph = "return" THEN trace ELSE Append(trace, RoundKind(ph))

\* The loops of hash over inclusive ranges.
AfterRound_inclusive(c) ==
    IF rnd + 1 <= PhaseLimit(c, phase)
    THEN CallRound(c, phase, rnd + 1)
    ELSE CallRound(c, EnterPhase(c, NextPhase(phase)), 0)

\* The round returned Ok(()): the loop goes on, or the next loop starts.
AfterRound(c) ==
    IF rnd + 1 < PhaseLimit(c, phase)
    THEN CallRound(c, phase, rnd + 1)
    ELSE CallRound(c, EnterPhase(c, NextPhase(phase)), 0)

\* The read that forgets to move the cursor.
next_constant_stuck(c, offset) ==
    [constant |-> c.round_constants[offset + 1], offset |-> offset]

\* add_round_constants reads the constant under its cursor and moves on.
next_constant(c, offset) ==
    [constant |-> c.round_constants[offset + 1], offset |-> offset + 1]

\* The error noted, and the loop going on.
Abort_continue(r) ==
    /\ ret' = r.res
    /\ pc' = pc

\* A gadget returned an error (or panicked): `?` returns it from the round,
\* from hash and from poseidon_hash.
Abort(r) ==
    /\ ret' = r.res
    /\ pc' = IF r.res.tag = "panic" THEN "panicked" ELSE "failed"

Init ==
    /\ \E computes \in BOOLEAN, vals \in [1 .. ARITY -> OptionFr] :
          /\ computes \/ \A i \in 1 .. ARITY : vals[i] = None
          /\ cs = InputCS(computes, vals)
          /\ preimage = InputNums(vals)
    /\ p = NoCircuit
    /\ pc = "start"
    /\ phase = "initial"
    /\ rnd = 0
    /\ idx = 0
    /\ constants_offset = 0
    /\ j = 0
    /\ k = 0
    /\ result = <<>>
    /\ to_add = <<>>
    /\ ret = Pending
    /\ trace = <<>>
    /\ finished = 0
    /\ reads = <<>>
    /\ last = NoCall
    /\ run = 1
    /\ prev = NoPrev

\* poseidon_hash up to the call of p.hash: the parameters and the tag
\* allocated, the circuit constructed over the tagged preimage.
construct(c, nums) ==
    CHOOSE made \in UNION UNION
        {{{[cs |-> arity_tag.cs,
            circuit |-> new(rotate_right(Append(nums, arity_tag.res.num)),
                            matrix.nums, round_constants.nums)] :
             arity_tag \in {Alloc(round_constants.cs, Some(ARITY_TAG))}} :
            round_constants \in
                {allocated_round_constants(matrix.cs, ROUND_CONSTANTS)}} :
           matrix \in {allocated_matrix(c, MDS_MATRIX)}} : TRUE

\* poseidon_hash up to the call of p.hash, and hash up to its first round.
poseidon_hash ==
    /\ pc = "start"
    /\ \E made \in {construct(cs, preimage)} :
          /\ cs' = made.cs
          /\ p' = made.circuit
          /\ CallRound(made.circuit, EnterPhase(made.circuit, "initial"), 0)
    /\ UNCHANGED <<preimage, j, k, result, to_add, ret, finished, reads, last,
                   run, prev>>

\* One iteration of the loop of add_round_constants.
add_round_constants ==
    /\ pc = "add_round_constants"
    /\ IF constants_offset >= Len(p.round_constants)
       THEN \* the index is out of bounds
            /\ pc' = "panicked"
            /\ ret' = Panicked
            /\ UNCHANGED <<cs, p, idx, constants_offset, reads>>
       ELSE \E read \in {next_constant(p, constants_offset)} :
            \E r \in {add(cs, p.elements[idx + 1], read.constant)} :
            LET done == idx + 1 = Len(p.elements)
            IN  /\ reads' = Append(reads, constants_offset)
                /\ constants_offset' = read.offset
                /\ cs' = r.cs
                /\ IF r.res.tag = "Ok"
                   THEN /\ p' = [p EXCEPT !.elements[idx + 1] = r.res.num,
                                          !.constants_offset =
                                              IF done THEN read.offset ELSE @]
                        /\ idx' = IF done THEN 0 ELSE idx + 1
                        /\ pc' = IF done THEN "s_box" ELSE "add_round_constants"
                        /\ ret' = ret
                   ELSE /\ Abort(r)
                        /\ UNCHANGED <<p, idx>>
    /\ UNCHANGED <<preimage, phase, rnd, j, k, result, to_add, trace, finished,
                   last, run, prev>>

\* The S-box loop that partial_round copied from full_round.
last_s_box_of_all(c, ph, i) == i + 1 = Len(c.elements)

\* Whether the S-box of element i is the last of the round: full_round boxes
\* every element, partial_round elements[0] only.
last_s_box(c, ph, i) == ph = "partial" \/ i + 1 = Len(c.elements)

\* The row pushed onto result, after the zero pushed for it.
store_row_push(rows, row, num) == Append(rows, num)

\* result[j] = multi_add(..)
store_row(rows, row, num) == [rows EXCEPT ![row + 1] = num]

\* The operand taken from the rows already computed, where there is one.
mds_operand_in_place(c, rows, col) ==
    IF col + 1 < Len(rows) THEN rows[col + 1] ELSE c.elements[col + 1]

\* The operand taken from the row already stored for the slot, if any.
mds_operand_overwritten(c, rows, col) ==
    IF col + 1 <= Len(rows) /\ rows[col + 1] # NoNum
    THEN rows[col + 1] ELSE c.elements[col + 1]

\* &self.elements[k]
mds_operand(c, rows, col) == c.elements[col + 1]

RECURSIVE mul_row(_, _, _, _, _, _)
\* The inner loop of product_mds from column col on: the products of a row.
mul_row(c, circuit, rows, row, col, products) ==
    IF col = WIDTH THEN [cs |-> c, res |-> Ok(NoNum), nums |-> products]
    ELSE LET product == Mul(c, circuit.mds_matrix[row + 1][col + 1],
                            mds_operand(circuit, rows, col))
         IN  IF product.res.tag # "Ok"
             THEN [cs |-> product.cs, res |-> product.res, nums |-> products]
             ELSE mul_row(product.cs, circuit, rows, row, col + 1,
                          Append(products, product.res.num))

\* The body of the outer loop of product_mds: the zero allocated for the
\* row, its products, and their sum.
mds_row(c, circuit, rows, row) ==
    LET al == Alloc(c, Some(0))
        products == mul_row(al.cs, circuit, rows, row, 0, <<>>)
    IN  IF products.res.tag # "Ok"
        THEN [cs |-> products.cs, res |-> products.res]
        ELSE multi_add(products.cs, products.nums)

RECURSIVE product_mds_in(_, _, _, _, _)
\* The outer loop of product_mds over the rows order[n], order[n + 1], ...
product_mds_in(c, circuit, order, n, rows) ==
    IF n > Len(order) THEN [cs |-> c, rows |-> rows, res |-> Ok(NoNum)]
    ELSE LET r == mds_row(c, circuit, rows, order[n])
         IN  IF r.res.tag # "Ok"
             THEN [cs |-> r.cs, rows |-> rows, res |-> r.res]
             ELSE product_mds_in(r.cs, circuit, order, n + 1,
                                 store_row(rows, order[n], r.res.num))

NoRows == [i \in 1 .. WIDTH |-> NoNum]

\* product_mds: for j in 0..WIDTH.
product_mds(c, circuit) ==
    product_mds_in(c, circuit, [i \in 1 .. WIDTH |-> i - 1], 1, NoRows)

\* One S-box of a round: full_round boxes every element, partial_round the
\* first one only.
s_box ==
    /\ pc = "s_box"
    /\ \E r \in {quintic_s_box(cs, p.elements[idx + 1])} :
       LET done == last_s_box(p, phase, idx)
       IN  /\ cs' = r.cs
           /\ IF r.res.tag = "Ok"
              THEN /\ p' = [p EXCEPT !.elements[idx + 1] = r.res.num]
                   /\ idx' = IF done THEN 0 ELSE idx + 1
                   /\ pc' = IF done THEN "initial_sum" ELSE "s_box"
                   /\ ret' = ret
              ELSE /\ Abort(r)
                   /\ UNCHANGED <<p, idx>>
    /\ j' = 0
    /\ result' = <<>>
    /\ UNCHANGED <<preimage, phase, rnd, constants_offset, k, to_add, trace,
                   finished, reads, last, run, prev>>

\* product_mds, row j: the zero pushed onto result.
initial_sum ==
    /\ pc = "initial_sum"
    /\ \E al \in {Alloc(cs, Some(0))} :
           /\ cs' = al.cs
           /\ result' = Append(result, al.res.num)
    /\ to_add' = <<>>
    /\ k' = 0
    /\ pc' = "multiply"
    /\ UNCHANGED <<preimage, p, phase, rnd, idx, constants_offset, j, ret, trace,
                   finished, reads, last, run, prev>>

\* product_mds, row j, column k: mds_matrix[j][k] * elements[k].
multiply ==
    /\ pc = "multiply"
    /\ \E product \in {Mul(cs, p.mds_matrix[j + 1][k + 1],
                             mds_operand(p, result, k))} :
           /\ cs' = product.cs
           /\ IF product.res.tag = "Ok"
              THEN /\ to_add' = Append(to_add, product.res.num)
                   /\ k' = k + 1
                   /\ pc' = IF k + 1 = WIDTH THEN "sum_row" ELSE "multiply"
                   /\ ret' = ret
              ELSE /\ Abort(product)
                   /\ UNCHANGED <<to_add, k>>
    /\ UNCHANGED <<preimage, p, phase, rnd, idx, constants_offset, j, result,
                   trace, finished, reads, last, run, prev>>

\* product_mds, row j: the products folded into result[j]; after the last
\* row the elements are replaced and the round returns.
sum_row ==
    /\ pc = "sum_row"
    /\ \E r \in {multi_add(cs, to_add)} :
       \E rows \in {store_row(result, j, r.res.num)} :
       \E c \in {[p EXCEPT !.elements = rows]} :
           /\ cs' = r.cs
           /\ IF r.res.tag # "Ok"
              THEN /\ Abort(r)
                   /\ UNCHANGED <<p, phase, rnd, idx, constants_offset, j, result,
                                  trace, finished>>
              ELSE IF j + 1 < WIDTH
              THEN /\ result' = rows
                   /\ j' = j + 1
                   /\ pc' = "initial_sum"
                   /\ UNCHANGED <<p, phase, rnd, idx, constants_offset, ret,
                                  trace, finished>>
              ELSE /\ result' = rows
                   /\ p' = c
                   /\ finished' = finished + 1
                   /\ AfterRound(c)
                   /\ UNCHANGED <<j, ret>>
    /\ UNCHANGED <<preimage, k, to_add, reads, last, run, prev>>

\* hash's last line: Ok(self.elements[1].clone()).
hash_return ==
    /\ pc = "return"
    /\ ret' = Ok(p.elements[2])
    /\ pc' = "done"
    /\ UNCHANGED <<cs, preimage, p, phase, rnd, idx, constants_offset, j, k,
                   result, to_add, trace, finished, reads, last, run, prev>>

\* The caller builds the circuit a second time over the same input, against
\* a fresh constraint system.
second_construction ==
    /\ pc \in {"done", "failed", "panicked"}
    /\ run = 1
    /\ run' = 2
    /\ prev' = [ret |-> ret, constraints |-> Len(cs.constraints)]
    /\ cs' = InputCS(cs.computes, InputValues)
    /\ pc' = "start"
    /\ phase' = "initial"
    /\ rnd' = 0
    /\ idx' = 0
    /\ constants_offset' = 0
    /\ j' = 0
    /\ k' = 0
    /\ result' = <<>>
    /\ to_add' = <<>>
    /\ ret' = Pending
    /\ trace' = <<>>
    /\ finished' = 0
    /\ reads' = <<>>
    /\ UNCHANGED <<preimage, p, last>>

Next ==
    \/ poseidon_hash
    \/ add_round_constants
    \/ s_box
    \/ initial_sum
    \/ multiply
    \/ sum_row
    \/ hash_return

\* One construction of the circuit.
Spec == Init /\ [][Next]_vars

\* The inputs of a run followed to its end: each one missing, the least or
\* the greatest field element (the steps of a run do not depend on the
\* values, only on whether they are assigned).
FairInit ==
    /\ Init
    /\ \A i \in 1 .. ARITY :
          InputValues[i] \in {None, Some(0), Some(FieldSize - 1)}

\* One construction of the circuit, run to its end: poseidon_hash is
\* straight-line synchronous code on one thread, with bounded loops and no
\* waiting, so a step that can be taken is taken.
FairSpec == FairInit /\ [][Next]_vars /\ WF_vars(Next)

TwoRunsNext ==
    \/ Next
    \/ second_construction

\* Two constructions over the same input, one after the other.
TwoRunsSpec == Init /\ [][TwoRunsNext]_vars

\* The inputs of the first of two constructions over concrete inputs.
FirstInputs == {[i \in 1 .. ARITY |-> Some(0)], [i \in 1 .. ARITY |-> Some(i)]}

ShapeInit ==
    /\ Init
    /\ cs.computes
    /\ InputValues \in FirstInputs

\* The caller builds the circuit again over any concrete input, against a
\* fresh constraint system; the first construction's system is kept.
other_construction ==
    /\ pc = "done"
    /\ run = 1
    /\ run' = 2
    /\ prev' = [ret |-> ret, constraints |-> Len(cs.constraints)]
    /\ last' = [gadget |-> "poseidon_hash", args |-> InputValues, before |-> cs]
    /\ \E vals \in [1 .. ARITY -> {Some(v) : v \in Fr}] :
          /\ cs' = InputCS(TRUE, vals)
          /\ preimage' = InputNums(vals)
    /\ pc' = "start"
    /\ phase' = "initial"
    /\ rnd' = 0
    /\ idx' = 0
    /\ constants_offset' = 0
    /\ j' = 0
    /\ k' = 0
    /\ result' = <<>>
    /\ to_add' = <<>>
    /\ ret' = Pending
    /\ trace' = <<>>
    /\ finished' = 0
    /\ reads' = <<>>
    /\ UNCHANGED p

ShapeNext ==
    \/ Next
    \/ other_construction

\* Two constructions over concrete inputs, the second over any input.
ShapeSpec == ShapeInit /\ [][ShapeNext]_vars

\* ------------------------------------------------ the gadgets on their own

\* The numbers a caller has at hand.
Pool == {preimage[i] : i \in 1 .. Len(preimage)}

GadgetInit ==
    /\ \E computes \in BOOLEAN, vals \in [1 .. ARITY -> OptionFr] :
          /\ computes \/ \A i \in 1 .. ARITY : vals[i] = None
          /\ cs = InputCS(computes, vals)
          /\ preimage = InputNums(vals)
    /\ p = NoCircuit
    /\ pc = "gadget"
    /\ phase = "initial"
    /\ rnd = 0
    /\ idx = 0
    /\ constants_offset = 0
    /\ j = 0
    /\ k = 0
    /\ result = <<>>
    /\ to_add = <<>>
    /\ ret = Pending
    /\ trace = <<>>
    /\ finished = 0
    /\ reads = <<>>
    /\ last = NoCall
    /\ run = 1
    /\ prev = NoPrev

\* The caller gets r back from gadget(args).
Returned(gadget, args, r) ==
    /\ cs' = r.cs
    /\ ret' = r.res
    /\ last' = [gadget |-> gadget, args |-> args, before |-> cs]
    /\ pc' = "returned"
    /\ UNCHANGED <<preimage, p, phase, rnd, idx, constants_offset, j, k, result,
                   to_add, trace, finished, reads, run, prev>>

call_add ==
    /\ pc = "gadget"
    /\ \E a \in Pool, b \in Pool : Returned("add", <<a, b>>, add(cs, a, b))

call_multi_add ==
    /\ pc = "gadget"
    /\ \E n \in 0 .. WIDTH : \E nums \in [1 .. n -> Pool] :
          Returned("multi_add", nums, multi_add(cs, nums))

call_mul ==
    /\ pc = "gadget"
    /\ \E a \in Pool, b \in Pool : Returned("mul", <<a, b>>, Mul(cs, a, b))

call_quintic_s_box ==
    /\ pc = "gadget"
    /\ \E l \in Pool : Returned("quintic_s_box", <<l>>, quintic_s_box(cs, l))

GadgetNext ==
    \/ call_add
    \/ call_multi_add
    \/ call_mul
    \/ call_quintic_s_box

GadgetSpec == GadgetInit /\ [][GadgetNext]_vars

\* ------------------------------------------------ one diffusion step, by row

\* The orders in which the rows of a diffusion step can be computed.
RowOrders ==
    {order \in [1 .. WIDTH -> 0 .. (WIDTH - 1)] :
        \A a, b \in 1 .. WIDTH : order[a] = order[b] => a = b}

\* A constructed circuit about to run one diffusion step over its state
\* vector, its rows to be computed in some order. A diffusion step is only
\* reached with every value assigned or with none (shape only).
RowOrderInit ==
    /\ \E computes \in BOOLEAN, vals \in [1 .. ARITY -> OptionFr],
          order \in RowOrders :
          /\ \A i \in 1 .. ARITY : IsSome(vals[i]) = computes
          /\ preimage = InputNums(vals)
          /\ LET made == construct(InputCS(computes, vals), InputNums(vals))
             IN  /\ cs = made.cs
                 /\ p = made.circuit
                 /\ last = [gadget |-> "product_mds", args |-> order,
                            before |-> made.cs]
    /\ pc = "rows"
    /\ phase = "initial"
    /\ rnd = 0
    /\ idx = 0
    /\ constants_offset = 0
    /\ j = 0
    /\ k = 0
    /\ result = NoRows
    /\ to_add = <<>>
    /\ ret = Pending
    /\ trace = <<>>
    /\ finished = 0
    /\ reads = <<>>
    /\ run = 1
    /\ prev = NoPrev

\* The j-th row computed: row last.args[j + 1] of the matrix.
row_step ==
    /\ pc = "rows"
    /\ LET row == last.args[j + 1]
           r == mds_row(cs, p, result, row)
       IN  /\ cs' = r.cs
           /\ IF r.res.tag = "Ok"
              THEN /\ result' = store_row(result, row, r.res.num)
                   /\ j' = j + 1
                   /\ pc' = IF j + 1 = WIDTH THEN "rows_done" ELSE "rows"
                   /\ ret' = ret
              ELSE /\ Abort(r)
                   /\ UNCHANGED <<result, j>>
    /\ UNCHANGED <<preimage, p, phase, rnd, idx, constants_offset, k, to_add,
                   trace, finished, reads, last, run, prev>>

\* self.elements = result
replace_elements ==
    /\ pc = "rows_done"
    /\ p' = [p EXCEPT !.elements = result]
    /\ pc' = "replaced"
    /\ UNCHANGED <<cs, preimage, phase, rnd, idx, constants_offset, j, k, result,
                   to_add, ret, trace, finished, reads, last, run, prev>>

RowOrderNext ==
    \/ row_step
    \/ replace_elements

RowOrderSpec == RowOrderInit /\ [][RowOrderNext]_vars

\* ------------------------------------------- the reference permutation

Pow5(x) == (x * x * x * x * x) % FieldSize

RefIsFull(r) ==
    r < FULL_ROUNDS \div 2 \/ r >= (FULL_ROUNDS \div 2) + PARTIAL_ROUNDS

RECURSIVE RefDot(_, _, _)
RefDot(row, state, n) ==
    IF n > Len(state) THEN 0
    ELSE FAdd(FMul(row[n], state[n]), RefDot(row, state, n + 1))

RECURSIVE RefAddRoundConstants(_, _, _)
\* Elements n.. of the state, each with its constant of round r added.
RefAddRoundConstants(state, r, n) ==
    IF n > Len(state) THEN <<>>
    ELSE <<FAdd(state[n], ROUND_CONSTANTS[(r * WIDTH) + n])>>
             \o RefAddRoundConstants(state, r, n + 1)

RECURSIVE RefSBoxes(_, _, _)
\* Elements n.. of the state: all of them boxed in a full round, the first
\* one only in a partial round.
RefSBoxes(state, full, n) ==
    IF n > Len(state) THEN <<>>
    ELSE <<IF full \/ n = 1 THEN Pow5(state[n]) ELSE state[n]>>
             \o RefSBoxes(state, full, n + 1)

RECURSIVE RefProductMds(_, _)
\* Rows n.. of the matrix times the state.
RefProductMds(state, n) ==
    IF n > Len(state) THEN <<>>
    ELSE <<RefDot(MDS_MATRIX[n], state, 1)>> \o RefProductMds(state, n + 1)

\* Round r of the reference permutation: round constants, S-boxes, matrix.
RefRound(state, r) ==
    RefProductMds(RefSBoxes(RefAddRoundConstants(state, r, 1), RefIsFull(r), 1), 1)

RECURSIVE RefRounds(_, _, _)
\* Rounds r .. r+n-1 of the reference permutation, n >= 1: the first half
\* of the rounds, then the second half on the state the first half left.
RefRounds(state, r, n) ==
    IF n = 1 THEN RefRound(state, r)
    ELSE LET h == n \div 2
         IN  CHOOSE out \in {RefRounds(mid, r + h, n - h) :
                                mid \in {RefRounds(state, r, h)}} : TRUE

RefPermutation(state) == RefRounds(state, 0, FULL_ROUNDS + PARTIAL_ROUNDS)

\* Poseidon::new(fr_data).hash(): the element at index 1 of the final state.
Reference(fr_data) == RefPermutation(<<ARITY_TAG>> \o fr_data)[2]

\* ------------------------------------------------------------------ claims

Concrete == cs.computes /\ \A i \in 1 .. Len(preimage) : IsSome(preimage[i].value)

FrData == [i \in 1 .. Len(preimage) |-> Unwrap(preimage[i].value)]

C2_Satisfied ==
    Concrete =>
        \A n \in 1 .. Len(cs.constraints) : Holds(cs, cs.constraints[n])

C2_Witness ==
    /\ pc = "done"
    /\ Concrete
    /\ Len(cs.constraints) > 0
    /\ FrData = <<3, 4>>

\* C3: for arity 2 (width 3) a complete poseidon_hash run has registered
\* exactly 1182 constraints.
C3_ConstraintCount ==
    (pc = "done" /\ ARITY = 2 /\ WIDTH = 3) => Len(cs.constraints) = 1182

C3_Witness ==
    /\ pc = "done"
    /\ ret.tag = "Ok"
    /\ Len(preimage) = 2
    /\ Len(p.elements) = 3

Terminal == pc \in {"done", "failed", "panicked"}

C5_CursorExhausts ==
    /\ pc = "done" =>
          p.constants_offset = p.width * (p.full_rounds + p.partial_rounds)
    /\ \A n \in 1 .. Len(reads) : reads[n] < Len(ROUND_CONSTANTS)
    /\ pc # "start" => constants_offset <= Len(p.round_constants)
    /\ pc # "panicked"

C5_Witness ==
    /\ pc = "done"
    /\ Len(reads) = WIDTH * (FULL_ROUNDS + PARTIAL_ROUNDS)
    /\ reads[Len(reads)] = Len(ROUND_CONSTANTS) - 1

\* The rounds whose add_round_constants has returned.
RoundsKeyed ==
    IF pc \in {"add_round_constants", "failed"} THEN Len(trace) - 1 ELSE Len(trace)

C6_State ==
    /\ (pc # "start" /\ reads = <<>>) => p.constants_offset = 0
    /\ pc \notin {"start", "panicked"} => p.constants_offset = p.width * RoundsKeyed
    /\ \A n \in 1 .. (Len(reads) - 1) : reads[n] < reads[n + 1]

C6_Step ==
    /\ pc # "start" => p'.constants_offset >= p.constants_offset
    /\ p'.constants_offset # p.constants_offset =>
          /\ p'.constants_offset = p.constants_offset + p.width
          /\ pc = "add_round_constants" /\ pc' = "s_box"

\* C6: the cursor of the circuit starts at 0, never decreases and moves by
\* exactly width in every round, full or partial (it is width times the
\* number of rounds keyed so far); the indices read are strictly increasing,
\* so none is read twice.
C6_CursorMonotone == [](C6_State) /\ [][C6_Step]_vars

C6_Witness ==
    /\ pc = "s_box"
    /\ phase = "partial"
    /\ p.constants_offset = p.width * ((p.full_rounds \div 2) + 2)
    /\ Len(reads) = p.constants_offset

\* The schedule of one run: full_rounds/2 full rounds, partial_rounds partial
\* rounds, full_rounds/2 full rounds.
Schedule ==
    [n \in 1 .. (FULL_ROUNDS + PARTIAL_ROUNDS) |->
        IF n <= FULL_ROUNDS \div 2 \/ n > (FULL_ROUNDS \div 2) + PARTIAL_ROUNDS
        THEN "full" ELSE "partial"]

\* C7: the rounds called so far are always a prefix of the schedule, a round
\* is called only when every earlier round has returned, and a run that
\* returns a digest has run the whole schedule and nothing more.
C7_PhaseOrder ==
    /\ Len(trace) <= Len(Schedule)
    /\ trace = SubSeq(Schedule, 1, Len(trace))
    /\ finished \in {Len(trace) - 1, Len(trace)}
    /\ pc \in {"return", "done"} => (trace = Schedule /\ finished = Len(trace))
    /\ (pc = "s_box" /\ idx > 0) => trace[Len(trace)] = "full"

C7_Witness ==
    /\ pc = "done"
    /\ Len(trace) = FULL_ROUNDS + PARTIAL_ROUNDS
    /\ trace[FULL_ROUNDS \div 2] = "full"
    /\ trace[(FULL_ROUNDS \div 2) + 1] = "partial"
    /\ trace[(FULL_ROUNDS \div 2) + PARTIAL_ROUNDS + 1] = "full"

\* C8: every S-box application of a run registers exactly the three
\* constraints x*x = x2, x2*x2 = x4, x4*x = x5 over three new variables, and
\* where values are computed the value of its result is x^5.
C8_SBox ==
    [][(pc = "s_box" /\ ret'.tag = "pending") =>
          LET x == p.elements[idx + 1]
              n == Len(cs.constraints)
              v == Len(cs.aux)
              x5 == p'.elements[idx + 1]
          IN  /\ Len(cs'.constraints) = n + 3
              /\ cs'.constraints[n + 1] =
                    [a |-> <<x.variable>>, b |-> <<x.variable>>, c |-> <<v + 1>>]
              /\ cs'.constraints[n + 2] =
                    [a |-> <<v + 1>>, b |-> <<v + 1>>, c |-> <<v + 2>>]
              /\ cs'.constraints[n + 3] =
                    [a |-> <<v + 2>>, b |-> <<x.variable>>, c |-> <<v + 3>>]
              /\ x5.variable = v + 3
              /\ Len(cs'.aux) = v + 3
              /\ cs.computes =>
                    /\ x5.value = Some(Pow5(Unwrap(x.value)))
                    /\ cs'.aux[v + 3] = x5.value]_vars

C8_Witness ==
    /\ pc = "s_box"
    /\ idx = 2
    /\ Concrete
    /\ Len(cs.constraints) = WIDTH + 6
    /\ Unwrap(p.elements[2].value) > 1

\* C9: a gadget that computes values and is given an input without a value
\* returns Err(AssignmentMissing) to its caller.
C9_MissingWitnessIsReturned ==
    (/\ pc = "returned"
     /\ last.before.computes
     /\ \E i \in 1 .. Len(last.args) : ~IsSome(last.args[i].value))
        => ret = AssignmentMissing

C10_State ==
    /\ ret.tag \notin {"pending", "Ok"} => pc \in {"failed", "panicked"}
    /\ pc = "failed" => ret = AssignmentMissing
    /\ ret.tag = "Ok" => pc = "done"

C10_Step ==
    /\ pc # "failed"
    /\ pc' = "failed" => (cs'.constraints = cs.constraints /\ cs'.aux = cs.aux)

\* C10: a gadget call that fails ends the run at that call: the error is
\* what poseidon_hash returns, with no digest variable; nothing runs after
\* it; the failing call leaves the constraints registered before it as they
\* were.
C10_ErrorAborts == [](C10_State) /\ [][C10_Step]_vars

C10_Witness ==
    /\ pc = "failed"
    /\ ret = AssignmentMissing
    /\ Len(cs.constraints) = 2
    /\ Len(trace) = 1

\* C11: from the construction of the circuit on, after every step of a run
\* (round-constant addition, S-box, diffusion, return, failure) the state
\* vector holds exactly width = arity + 1 variables.
C11_StateWidth ==
    pc # "start" =>
        /\ Len(p.elements) = p.width
        /\ p.width = Len(preimage) + 1
        /\ \A i \in 1 .. Len(p.elements) :
              p.elements[i].variable \in 1 .. Len(cs.aux)

C11_Witness ==
    /\ pc = "add_round_constants"
    /\ finished = (FULL_ROUNDS \div 2) + 1
    /\ idx = 1
    /\ Len(p.elements) = 3

\* C12: the S-box step of a partial round is the one S-box of elements[0]:
\* every other slot holds after it the variable it held after the
\* round-constant addition, and none of the constraints it registers
\* mentions such a slot.
C12_PartialSBoxFrame ==
    [][(pc = "s_box" /\ phase = "partial" /\ ret'.tag = "pending") =>
          /\ idx = 0
          /\ pc' = "initial_sum"
          /\ p'.elements[1] # p.elements[1]
          /\ \A i \in 2 .. Len(p.elements) :
                /\ p'.elements[i] = p.elements[i]
                /\ \A n \in (Len(cs.constraints) + 1) .. Len(cs'.constraints) :
                      \A side \in {cs'.constraints[n].a, cs'.constraints[n].b,
                                   cs'.constraints[n].c} :
                         \A t \in 1 .. Len(side) :
                            side[t] # p.elements[i].variable]_vars

C12_Witness ==
    /\ pc = "initial_sum"
    /\ phase = "partial"
    /\ rnd = 1
    /\ j = 0
    /\ Concrete

\* C13: in the r-th round of a run, full and partial rounds counted together
\* from 0, the addition for slot i reads the round constant at index
\* r * width + i, constrains the slot's variable plus that constant's variable
\* to the slot's new variable, and assigns the sum of their values.
C13_RowMajorConstants ==
    [][(pc = "add_round_constants" /\ ret'.tag = "pending") =>
          LET r == Len(trace) - 1
              n == (r * WIDTH) + idx
              con == cs'.constraints[Len(cs'.constraints)]
          IN  /\ r = finished
              /\ constants_offset = n
              /\ reads' = Append(reads, n)
              /\ Len(cs'.constraints) = Len(cs.constraints) + 1
              /\ con.a = <<p.elements[idx + 1].variable,
                           p.round_constants[n + 1].variable>>
              /\ con.b = <<ONE>>
              /\ con.c = <<p'.elements[idx + 1].variable>>
              /\ cs.computes =>
                    /\ VarValue(cs, p.round_constants[n + 1].variable)
                          = Some(ROUND_CONSTANTS[n + 1])
                    /\ p'.elements[idx + 1].value
                          = Some(FAdd(Unwrap(p.elements[idx + 1].value),
                                      ROUND_CONSTANTS[n + 1]))]_vars

C13_Witness ==
    /\ pc = "s_box"
    /\ phase = "final"
    /\ rnd = (FULL_ROUNDS \div 2) - 1
    /\ reads = [n \in 1 .. (WIDTH * (FULL_ROUNDS + PARTIAL_ROUNDS)) |-> n - 1]
    /\ Concrete

\* C14: a diffusion step leaves the state vector alone until its last row
\* is summed; row j multiplies matrix entry (j, k) by the variable slot k held
\* before the step, for every k, and its sum is the new slot j, whose value is
\* the sum over k of mds[j][k] * old state[k].
C14_Diffusion ==
    [][/\ pc \in {"initial_sum", "multiply"} => p' = p
       /\ (pc = "sum_row" /\ ret'.tag = "pending") =>
             LET row == result'[j + 1]
                 n == Len(cs.constraints)
                 old == [i \in 1 .. Len(p.elements) |-> Unwrap(p.elements[i].value)]
             IN  /\ \A col \in 1 .. WIDTH :
                       cs.constraints[(n - WIDTH) + col]
                          = [a |-> <<p.mds_matrix[j + 1][col].variable>>,
                             b |-> <<p.elements[col].variable>>,
                             c |-> <<to_add[col].variable>>]
                 /\ cs'.constraints[n + 1]
                       = [a |-> [col \in 1 .. WIDTH |-> to_add[col].variable],
                          b |-> <<ONE>>,
                          c |-> <<row.variable>>]
                 /\ cs.computes => row.value = Some(RefDot(MDS_MATRIX[j + 1], old, 1))
                 /\ p'.elements = IF j + 1 = WIDTH THEN result' ELSE p.elements]_vars

C14_Witness ==
    /\ pc = "add_round_constants"
    /\ finished = 1
    /\ idx = 0
    /\ Concrete
    /\ \E a, b \in 1 .. Len(p.elements) : p.elements[a].value # p.elements[b].value

DiffusionCost == (WIDTH * WIDTH) + WIDTH

RoundCost(kind) ==
    IF kind = "full" THEN (WIDTH * WIDTH) + (5 * WIDTH)
    ELSE (WIDTH * WIDTH) + (2 * WIDTH) + 3

\* The constraints of the rounds that have returned.
FinishedCost ==
    LET full == Cardinality({n \in 1 .. finished : trace[n] = "full"})
    IN  (full * RoundCost("full")) + ((finished - full) * RoundCost("partial"))

\* The constraints registered so far by the round in progress.
InRoundCost ==
    LET rest == RoundCost(trace[Len(trace)]) - DiffusionCost
    IN  CASE pc = "add_round_constants" -> idx
          [] pc = "s_box"               -> WIDTH + (3 * idx)
          [] pc = "initial_sum"         -> rest + (j * (WIDTH + 1))
          [] pc = "multiply"            -> rest + (j * (WIDTH + 1)) + k
          [] pc = "sum_row"             -> rest + (j * (WIDTH + 1)) + WIDTH
          [] OTHER                      -> 0

C15_State ==
    /\ pc \in {"add_round_constants", "s_box", "initial_sum", "multiply", "sum_row"} =>
          /\ finished = Len(trace) - 1
          /\ Len(cs.constraints) = FinishedCost + InRoundCost
    /\ pc \in {"return", "done"} =>
          /\ finished = Len(trace)
          /\ Len(cs.constraints) = FinishedCost

C15_Step ==
    /\ (pc = "add_round_constants" /\ ret'.tag = "pending") =>
          Len(cs'.constraints) = Len(cs.constraints) + 1
    /\ (pc = "sum_row" /\ ret'.tag = "pending") =>
          /\ Len(cs'.constraints) = Len(cs.constraints) + 1
          /\ j + 1 = WIDTH =>
                Len(cs'.constraints)
                   = FinishedCost + RoundCost(trace[Len(trace)])

\* C15: every add and every multi_add registers one constraint; a diffusion
\* step registers width^2 + width, a full round width^2 + 5 * width and a
\* partial round width^2 + 2 * width + 3, so that the constraint count at
\* every point of a run is the sum of the costs of what has run.
C15_RoundCost == [](C15_State) /\ [][C15_Step]_vars

C15_Witness ==
    /\ pc = "sum_row"
    /\ phase = "partial"
    /\ rnd = 2
    /\ j = 1
    /\ Len(cs.constraints)
          = (4 * RoundCost("full")) + (2 * RoundCost("partial")) + 13

\* C16: from the entry of poseidon_hash to the call of the first round, the
\* matrix, the round constants and the arity tag are allocated as variables
\* and no constraint is registered.
C16_SetupAllocatesOnly ==
    [][pc = "start" =>
          /\ cs'.constraints = cs.constraints
          /\ Len(cs'.aux) = Len(cs.aux) + (WIDTH * WIDTH)
                               + (WIDTH * (FULL_ROUNDS + PARTIAL_ROUNDS)) + 1
          /\ pc' = "add_round_constants"
          /\ trace' = <<"full">>
          /\ reads' = <<>>]_vars

C16_Witness ==
    /\ pc = "add_round_constants"
    /\ trace = <<"full">>
    /\ idx = 0
    /\ cs.constraints = <<>>
    /\ Len(cs.aux) = ARITY + (WIDTH * WIDTH)
                        + (WIDTH * (FULL_ROUNDS + PARTIAL_ROUNDS)) + 1

\* C17: the state vector the first round starts from is the arity tag, the
\* variable allocated last by poseidon_hash, followed by the inputs in the
\* order they were given.
C17_InitialState ==
    [][pc = "start" =>
          /\ Len(p'.elements) = Len(preimage) + 1
          /\ p'.elements[1].variable = Len(cs'.aux)
          /\ p'.elements[1].value
                = (IF cs.computes THEN Some(ARITY_TAG) ELSE None)
          /\ \A i \in 1 .. Len(preimage) : p'.elements[i + 1] = preimage[i]]_vars

C17_Witness ==
    /\ pc = "add_round_constants"
    /\ reads = <<>>
    /\ Concrete
    /\ preimage[1].value # preimage[2].value
    /\ p.elements = <<[value |-> Some(ARITY_TAG), variable |-> Len(cs.aux)],
                      preimage[1], preimage[2]>>

Values(nums) == [i \in 1 .. Len(nums) |-> nums[i].value]

ConstraintSet(c) == {c.constraints[n] : n \in 1 .. Len(c.constraints)}

\* The variable that the ascending order allocates where the order last.args
\* allocated v: a row allocates its zero, its products and its sum, WIDTH + 2
\* variables in all.
Renamed(v) ==
    LET base == Len(last.before.aux)
        pos == ((v - base) - 1) \div (WIDTH + 2)
        at == ((v - base) - 1) % (WIDTH + 2)
    IN  IF v <= base THEN v
        ELSE base + (last.args[pos + 1] * (WIDTH + 2)) + at + 1

RenamedConstraint(con) ==
    [a |-> [t \in 1 .. Len(con.a) |-> Renamed(con.a[t])],
     b |-> [t \in 1 .. Len(con.b) |-> Renamed(con.b[t])],
     c |-> [t \in 1 .. Len(con.c) |-> Renamed(con.c[t])]]

PhaseRank(ph) ==
    CASE ph = "initial" -> 0 [] ph = "partial" -> 1 [] ph = "final" -> 2
      [] OTHER -> 3

C19_State ==
    /\ phase \in {"initial", "final"} => rnd < FULL_ROUNDS \div 2
    /\ phase = "partial" => rnd < PARTIAL_ROUNDS
    /\ finished <= FULL_ROUNDS + PARTIAL_ROUNDS
    /\ Len(trace) <= FULL_ROUNDS + PARTIAL_ROUNDS
    /\ pc # "panicked"
    /\ pc = "done" =>
          /\ finished = FULL_ROUNDS + PARTIAL_ROUNDS
          /\ ret = Ok(p.elements[2])
    /\ pc = "failed" => ret = AssignmentMissing

C19_Step ==
    /\ PhaseRank(phase') >= PhaseRank(phase)
    /\ phase' = phase => rnd' >= rnd
    /\ finished' \in {finished, finished + 1}
    /\ pc \notin {"done", "failed"}

\* C19: every run of poseidon_hash reaches its end: it returns the digest,
\* after exactly full_rounds + partial_rounds rounds, or it returns the
\* missing-witness error; it never runs more rounds than that, never goes
\* back to an earlier loop or iteration, and takes no step after returning.
C19_Terminates ==
    /\ <>(pc \in {"done", "failed"})
    /\ [](C19_State)
    /\ [][C19_Step]_vars

C19_Witness ==
    /\ pc = "done"
    /\ phase = "return"
    /\ finished = FULL_ROUNDS + PARTIAL_ROUNDS
    /\ ret = Ok(p.elements[2])
    /\ Concrete
    /\ FrData = <<FieldSize - 1, 0>>

\* C20: a construction over any concrete input registers, step by step, the
\* constraints that the construction over another concrete input registered,
\* in the same order and over the same variable indices, and when it returns
\* it has registered as many constraints and allocated as many variables;
\* the digest is the same variable.  (Equality with the first construction,
\* for every input, makes any two constructions equal.)
C20_ShapeIndependentOfWitness ==
    run = 2 =>
        /\ Len(cs.constraints) <= Len(last.before.constraints)
        /\ cs.constraints = SubSeq(last.before.constraints, 1, Len(cs.constraints))
        /\ Len(cs.aux) <= Len(last.before.aux)
        /\ pc # "failed"
        /\ pc = "done" =>
              /\ Len(cs.constraints) = Len(last.before.constraints)
              /\ Len(cs.aux) = Len(last.before.aux)
              /\ ret.tag = "Ok"
              /\ prev.ret.tag = "Ok"
              /\ ret.num.variable = prev.ret.num.variable

C20_Witness ==
    /\ run = 2
    /\ pc = "add_round_constants"
    /\ idx = 0
    /\ finished = (FULL_ROUNDS \div 2) + 1
    /\ InputValues \notin FirstInputs
    /\ cs.constraints = SubSeq(last.before.constraints, 1, Len(cs.constraints))
    /\ cs.aux # SubSeq(last.before.aux, 1, Len(cs.aux))
    /\ p.elements[2].value # last.before.aux[p.elements[2].variable]

====
